---------------------------- MODULE Spec2Model ----------------------------
(***************************************************************************)
(* State-machine model of the starkmint ABCI application                   *)
(* (starkmint/src/app.rs) and of the process that hosts it                 *)
(* (starkmint/src/bin/starkmint.rs).                                       *)
(*                                                                         *)
(* The process state is the Sha256 accumulator held by StarknetApp, the    *)
(* two process-wide statics TRANSACTIONS and TIMER, and the storage under  *)
(* /tmp/starkmint (the directory and the height file).  Every handler of   *)
(* Service::call is an operator from a process state and a request to the  *)
(* process state after it, the response, and the tracing line it emits.    *)
(***************************************************************************)
EXTENDS Integers, Sequences, FiniteSets, TLC

(***************************************************************************)
(* Bounds of the model.                                                    *)
(***************************************************************************)
\* DeliverTx requests (accepted or not) handled between two BeginBlocks
MaxBlockTxs == 2
\* transactions applied to the accumulator over the life of the instance
MaxApplied == 2
\* Commit requests handled over the life of the storage
MaxHeight == 2
\* the latest instant, in milliseconds, a handler reads from the clock
MaxClock == 1
\* process restarts on the same storage
MaxRestarts == 1

(***************************************************************************)
(* Bytes and the two encodings the program uses.                           *)
(***************************************************************************)
\* the largest byte value a transaction hash holds in the model
MaxByte == 1
MaxSent == 3
MaxMempoolSent == 12
MaxInfoSends == 2
MaxInfoForwards == 3
MaxTicks == 2

\* ASCII '0'
Ascii0 == 48

Ok(v) == [ok |-> TRUE, val |-> v]

Err == [ok |-> FALSE, val |-> 0]

RECURSIVE Digits(_)
\* decimal digits of n, most significant first (Height is written as text)
Digits(n) == IF n < 10 THEN <<Ascii0 + n>> ELSE Digits(n \div 10) \o <<Ascii0 + (n % 10)>>

RECURSIVE DigitsValue(_)
DigitsValue(d) == IF Len(d) = 0 THEN 0 ELSE 10 * DigitsValue(SubSeq(d, 1, Len(d) - 1)) + (d[Len(d)] - Ascii0)

\* bincode::serialize(&Height): a length prefix followed by the record body
SerializeHeight(h) == <<Len(Digits(h))>> \o Digits(h)

\* bincode::deserialize::<Height>: Err on a truncated, empty or non-numeric record
DeserializeHeight(bytes) ==
    IF /\ Len(bytes) >= 2
       /\ bytes[1] = Len(bytes) - 1
       /\ \A i \in 2..Len(bytes) : bytes[i] \in Ascii0..(Ascii0 + 9)
    THEN Ok(DigitsValue(SubSeq(bytes, 2, Len(bytes))))
    ELSE Err

\* Height::default()
HeightDefault == 0

\* Height::increment() skipping a value
HeightIncrementSkips(h) == h + 2

\* Height::increment()
HeightIncrement(h) == h + 1

(***************************************************************************)
(* Transactions.  crate::transaction is not part of the sources at hand:   *)
(* a transaction is {transaction_type, transaction_hash}, its payload a    *)
(* program with an entry point, and the validator is the one capability    *)
(* compute_and_hash(payload) -> Result<Hash, Error>.                       *)
(***************************************************************************)
\* payloads: 1 and 2 execute, 3 makes the validator fail
Payloads == {1, 2, 3}

\* TransactionType::compute_and_hash
compute_and_hash(payload) == IF payload = 3 THEN Err ELSE Ok(<<payload - 1, 2 - payload>>)

Transaction(payload, hash) == [transaction_type |-> payload, transaction_hash |-> hash]

\* two transactions whose embedded hash is the validator's, one whose embedded
\* hash is that of another payload, one whose payload the validator fails on
Transactions ==
    {Transaction(1, <<0, 1>>), Transaction(2, <<1, 0>>),
     Transaction(1, <<1, 0>>), Transaction(3, <<0, 1>>)}

\* bincode::serialize(&Transaction): payload tag, hash length, hash bytes
SerializeTransaction(tx) == <<tx.transaction_type, Len(tx.transaction_hash)>> \o tx.transaction_hash

\* bincode::deserialize::<Transaction>
DeserializeTransaction(bytes) ==
    IF /\ Len(bytes) >= 2
       /\ bytes[1] \in Payloads
       /\ bytes[2] = Len(bytes) - 2
    THEN Ok(Transaction(bytes[1], SubSeq(bytes, 3, Len(bytes))))
    ELSE Err

\* request bytes that are no encoding of a Transaction
Malformed == {<<1, 2, 0>>}

\* the bytes a CheckTx or DeliverTx request can carry
WireInputs == {SerializeTransaction(tx) : tx \in Transactions} \cup Malformed

(***************************************************************************)
(* Sha256.  The hasher state is the message absorbed so far; the digest    *)
(* is a collision-free stand-in for SHA-256, computed by folding the       *)
(* message byte by byte into one word.                                     *)
(***************************************************************************)
\* Sha256::new()
Sha256New == <<>>

\* Digest::update
Sha256Update(hasher, bytes) == hasher \o bytes

\* the word the compression steps leave after the bytes of msg, one after another
Sha256Word(msg) ==
    LET word[i \in 0..Len(msg)] ==
            IF i = 0 THEN 0 ELSE word[i - 1] * (MaxByte + 2) + msg[i] + 1
    IN  word[Len(msg)]

\* Digest::finalize
Sha256Finalize(hasher) == <<Sha256Word(hasher)>>

(***************************************************************************)
(* The process state the handlers read and write.                          *)
(***************************************************************************)
\* HEIGHT_PATH does not exist
NoFile == <<-1>>

\* TIMER before its first dereference (Lazy::new(Instant::now))
NoInstant == -1

\* the float a division by zero elapsed milliseconds yields (inf or NaN)
NotFinite == -1

\* a Lazy<Instant> dereferenced at time now
Force(timer, now) == IF timer = NoInstant THEN now ELSE timer

\* one tracing line of the block handlers
Log(msg, count, ms, tps, height) == [msg |-> msg, count |-> count, ms |-> ms, tps |-> tps, height |-> height]

NoLog == Log("", 0, 0, 0, 0)

\* a response of Service::call, with the tracing line its handler wrote (traced)
Resp(kind) ==
    [kind |-> kind, code |-> 0, data |-> <<>>, events |-> <<>>, log |-> "",
     last_block_height |-> 0, last_block_app_hash |-> <<>>, retain_height |-> 0,
     traced |-> NoLog]

\* the handler did not return: an unwrap() or expect() failed
Panicked == Resp("panic")

Result(st, resp, log) == [st |-> st, resp |-> [resp EXCEPT !.traced = log], panic |-> FALSE]

Panic(st) == [st |-> st, resp |-> Panicked, panic |-> TRUE]

(***************************************************************************)
(* HeightFile                                                              *)
(***************************************************************************)
\* std::fs::write(HEIGHT_PATH, ..): fails when /tmp/starkmint is missing
WriteHeight(st, h) == [st EXCEPT !.height_file = SerializeHeight(h)]

\* read_or_create taking its create branch although the file is there
read_or_create_resets(st) ==
    [st |-> WriteHeight(st, HeightDefault), height |-> HeightDefault, panic |-> FALSE]

read_or_create(st) ==
    IF st.height_file # NoFile
    THEN IF DeserializeHeight(st.height_file).ok
         THEN [st |-> st, height |-> DeserializeHeight(st.height_file).val, panic |-> FALSE]
         ELSE [st |-> st, height |-> 0, panic |-> TRUE]
    ELSE IF st.tmp_dir
         THEN [st |-> WriteHeight(st, HeightDefault), height |-> HeightDefault, panic |-> FALSE]
         ELSE [st |-> st, height |-> 0, panic |-> TRUE]

increment(st) ==
    IF st.height_file = NoFile \/ ~DeserializeHeight(st.height_file).ok
    THEN [st |-> st, height |-> 0, panic |-> TRUE]
    ELSE LET height == HeightIncrement(DeserializeHeight(st.height_file).val)
         IN  [st |-> WriteHeight(st, height), height |-> height, panic |-> FALSE]

(***************************************************************************)
(* StarknetApp                                                             *)
(***************************************************************************)
\* StarknetApp::new in a process that has just started, on the storage of st
new(st) ==
    IF st.tmp_dir
    THEN [st |-> st, panic |-> TRUE]
    ELSE [st |-> [hasher |-> Sha256New, poisoned |-> FALSE,
                  TRANSACTIONS |-> 0, TIMER |-> NoInstant,
                  tmp_dir |-> TRUE, height_file |-> SerializeHeight(HeightDefault)],
          panic |-> FALSE]

info(st) ==
    LET r == read_or_create(st)
    IN  IF r.panic
        THEN Panic(st)
        ELSE Result(r.st,
                    [Resp("Info") EXCEPT !.data = <<>>, !.last_block_height = r.height,
                                         !.last_block_app_hash = <<>>],
                    NoLog)

query(st) == Result(st, [Resp("Query") EXCEPT !.code = 1, !.log = "Error running query"], NoLog)

\* check_tx answering what it cannot deserialize, or what fails validation, with code 1
check_tx_rejects(st, bytes) ==
    IF ~DeserializeTransaction(bytes).ok
    THEN Result(st, [Resp("CheckTx") EXCEPT !.code = 1], NoLog)
    ELSE IF compute_and_hash(DeserializeTransaction(bytes).val.transaction_type)
                = Ok(DeserializeTransaction(bytes).val.transaction_hash)
         THEN Result(st, Resp("CheckTx"), NoLog)
         ELSE Result(st, [Resp("CheckTx") EXCEPT !.code = 1], NoLog)

\* check_tx counting the transaction as deliver_tx does
check_tx_counts(st, bytes) ==
    IF ~DeserializeTransaction(bytes).ok
    THEN Panic(st)
    ELSE Result([st EXCEPT !.TRANSACTIONS = @ + 1], Resp("CheckTx"), NoLog)

\* check_tx folding the transaction hash as deliver_tx does
check_tx_applies(st, bytes) ==
    IF ~DeserializeTransaction(bytes).ok
    THEN Panic(st)
    ELSE Result([st EXCEPT !.hasher = Sha256Update(@, DeserializeTransaction(bytes).val.transaction_hash)],
                Resp("CheckTx"), NoLog)

check_tx(st, bytes) ==
    IF ~DeserializeTransaction(bytes).ok
    THEN Panic(st)
    ELSE Result(st, Resp("CheckTx"), NoLog)

\* begin_block restarting the timer without resetting the count
begin_block_keeps(st, now) ==
    Result([st EXCEPT !.TIMER = now],
           Resp("BeginBlock"),
           Log("begin_block", 0, now - Force(st.TIMER, now), 0, 0))

begin_block(st, now) ==
    Result([st EXCEPT !.TRANSACTIONS = 0, !.TIMER = now],
           Resp("BeginBlock"),
           Log("begin_block", 0, now - Force(st.TIMER, now), 0, 0))

\* the index event and the function event of an applied transaction
Events(tx) ==
    << [kind |-> "app", key |-> "tx_id", value |-> tx.transaction_hash],
       [kind |-> "function", key |-> "function", value |-> <<tx.transaction_type>>] >>

\* the validation without the comparison with the embedded hash
ValidateAny(tx) ==
    IF compute_and_hash(tx.transaction_type).ok
    THEN Ok(TRUE)
    ELSE Err

\* compute_and_hash().map(|x| x == tx.transaction_hash)
Validate(tx) ==
    IF compute_and_hash(tx.transaction_type).ok
    THEN Ok(compute_and_hash(tx.transaction_type).val = tx.transaction_hash)
    ELSE Err

\* unsafe { TRANSACTIONS += 1 }
Count(st) == [st EXCEPT !.TRANSACTIONS = @ + 1]

\* the fold putting the new hash in front of the ones already folded
FoldFront(st, tx) ==
    IF st.poisoned
    THEN st
    ELSE [st EXCEPT !.hasher = Sha256Update(tx.transaction_hash, @)]

\* self.hasher.lock().map(|mut hash| hash.update(tx.transaction_hash))
Fold(st, tx) ==
    IF st.poisoned
    THEN st
    ELSE [st EXCEPT !.hasher = Sha256Update(@, tx.transaction_hash)]

deliver_tx(st, bytes) ==
    IF ~DeserializeTransaction(bytes).ok
    THEN Panic(st)
    ELSE LET tx == DeserializeTransaction(bytes).val
             tx_hash == Validate(tx)
         IN  IF tx_hash.ok /\ tx_hash.val
             THEN Result(Fold(Count(st), tx),
                         [Resp("DeliverTx") EXCEPT !.events = Events(tx), !.data = tx.transaction_hash],
                         NoLog)
             ELSE IF tx_hash.ok
             THEN Result(Count(st),
                         [Resp("DeliverTx") EXCEPT !.code = 1, !.log = "Integrity check failed"],
                         NoLog)
             ELSE Result(Count(st),
                         [Resp("DeliverTx") EXCEPT !.code = 1, !.log = "Error delivering transaction"],
                         NoLog)

\* (TRANSACTIONS * 1000) as f32 / elapsed as f32
Tps(count, ms) == IF ms = 0 THEN NotFinite ELSE (count * 1000) \div ms

end_block(st, now) ==
    LET timer == Force(st.TIMER, now)
    IN  Result([st EXCEPT !.TIMER = timer],
               Resp("EndBlock"),
               Log("end_block", st.TRANSACTIONS, now - timer, Tps(st.TRANSACTIONS, now - timer), 0))

\* self.hasher.lock().map(|hasher| hasher.clone().finalize().as_slice().to_vec())
app_hash(st) == IF st.poisoned THEN Err ELSE Ok(Sha256Finalize(st.hasher))

\* commit with lock().unwrap() in place of lock().map(..)
commit_unwraps(st) ==
    LET r == increment(st)
    IN  IF r.panic \/ st.poisoned
        THEN Panic(st)
        ELSE Result(r.st,
                    [Resp("Commit") EXCEPT !.data = app_hash(st).val,
                                           !.retain_height = HeightDefault],
                    Log("commit", 0, 0, 0, r.height))

\* commit with finalize_reset() in place of clone().finalize()
commit_resets(st) ==
    LET r == increment(st)
    IN  IF r.panic
        THEN Panic(st)
        ELSE Result([r.st EXCEPT !.hasher = IF st.poisoned THEN @ ELSE Sha256New],
                    [Resp("Commit") EXCEPT !.data = IF app_hash(st).ok THEN app_hash(st).val ELSE <<>>,
                                           !.retain_height = HeightDefault],
                    Log("commit", 0, 0, 0, r.height))

commit(st) ==
    LET r == increment(st)
    IN  IF r.panic
        THEN Panic(st)
        ELSE Result(r.st,
                    [Resp("Commit") EXCEPT !.data = IF app_hash(st).ok THEN app_hash(st).val ELSE <<>>,
                                           !.retain_height = HeightDefault],
                    Log("commit", 0, 0, 0, r.height))

\* the request kinds Service::call answers without calling a handler
Unhandled ==
    {"Flush", "Echo", "InitChain", "ListSnapshots", "OfferSnapshot",
     "LoadSnapshotChunk", "ApplySnapshotChunk", "SetOption"}

Request(kind, tx) == [kind |-> kind, tx |-> tx]

\* Service::call with Flush routed to the commit handler
call_flush_commits(st, request, now) ==
    CASE request.kind = "Commit" -> commit(st)
      [] request.kind = "Info" -> info(st)
      [] request.kind = "Query" -> query(st)
      [] request.kind = "CheckTx" -> check_tx(st, request.tx)
      [] request.kind = "EndBlock" -> end_block(st, now)
      [] request.kind = "DeliverTx" -> deliver_tx(st, request.tx)
      [] request.kind = "BeginBlock" -> begin_block(st, now)
      [] request.kind = "Flush" -> commit(st)
      [] request.kind = "SetOption" -> Result(st, [Resp("SetOption") EXCEPT !.log = "N/A"], NoLog)
      [] OTHER -> Result(st, Resp(request.kind), NoLog)

\* Service::call
call(st, request, now) ==
    CASE request.kind = "Commit" -> commit(st)
      [] request.kind = "Info" -> info(st)
      [] request.kind = "Query" -> query(st)
      [] request.kind = "CheckTx" -> check_tx(st, request.tx)
      [] request.kind = "EndBlock" -> end_block(st, now)
      [] request.kind = "DeliverTx" -> deliver_tx(st, request.tx)
      [] request.kind = "BeginBlock" -> begin_block(st, now)
      [] request.kind = "SetOption" -> Result(st, [Resp("SetOption") EXCEPT !.log = "N/A"], NoLog)
      [] OTHER -> Result(st, Resp(request.kind), NoLog)

(***************************************************************************)
(* The state machine.                                                      *)
(***************************************************************************)
VARIABLES
    hasher,         \* StarknetApp.hasher: the message the Sha256 has absorbed
    poisoned,       \* the accumulator's Mutex is poisoned
    TRANSACTIONS,   \* static mut TRANSACTIONS
    TIMER,          \* static mut TIMER
    tmp_dir,        \* /tmp/starkmint exists
    height_file,    \* the bytes of HEIGHT_PATH, or NoFile
    running,        \* the process holds a constructed application and serves requests
    request,        \* the last request handled
    response,       \* its response
    applied,        \* history: the transactions DeliverTx answered with code 0, in order
    blockStart,     \* history: Len(applied) at the last BeginBlock, NoBlock before the first
    commitLog,      \* history: per Commit handled, its data and Len(applied) at that time
    restarts,       \* history: the number of process restarts
    replica,        \* a second, independent instance on a machine of its own
    lanes           \* the queues and limiters between the connections and Service::call

vars ==
    <<hasher, poisoned, TRANSACTIONS, TIMER, tmp_dir, height_file, running,
      request, response, applied, blockStart, commitLog, restarts, replica, lanes>>

\* the process state as the handlers take it
State ==
    [hasher |-> hasher, poisoned |-> poisoned, TRANSACTIONS |-> TRANSACTIONS,
     TIMER |-> TIMER, tmp_dir |-> tmp_dir, height_file |-> height_file]

\* the process state a handler leaves
Install(st) ==
    /\ hasher' = st.hasher
    /\ poisoned' = st.poisoned
    /\ TRANSACTIONS' = st.TRANSACTIONS
    /\ TIMER' = st.TIMER
    /\ tmp_dir' = st.tmp_dir
    /\ height_file' = st.height_file

\* .buffer(10) of the mempool lane
MempoolBuffer == 10

\* .buffer(100) of the info lane
InfoBuffer == 100

\* .rate_limit(50, Duration::from_secs(1)): the requests of one period
InfoRate == 50

\* .rate_limit(50, Duration::from_secs(1)): the period, in ticks of half a second
RatePer == 2

\* RateLimit::new: ready, with a period that ends at once
RateLimitNew == [until |-> 0, rem |-> InfoRate, limited |-> FALSE]

\* exec: the lanes once the server is built, nothing sent yet
LanesInit ==
    [stuck |-> FALSE,        \* the call in progress does not return
     arrived |-> <<>>,       \* history: the consensus and mempool requests, as sent
     consensus |-> <<>>,     \* the requests waiting on the consensus lane
     mempool |-> <<>>,       \* the requests waiting in the mempool lane's buffer
     handled |-> <<>>,       \* history: the requests Service::call was called with
     shed |-> {},            \* history: the requests the load shedding rejected
     failed |-> {},          \* history: the requests answered with the worker gone
     now |-> 0,              \* the clock of the info lane's limiter
     limiter |-> RateLimitNew,
     infoQueue |-> 0,        \* the number of requests waiting in the info lane's buffer
     infoSends |-> 0,        \* history: bursts sent on the info lane
     infoForwards |-> 0,     \* history: runs of requests forwarded to the handler
     infoArrived |-> 0,      \* history: requests sent on the info lane
     infoHandled |-> 0,      \* history: of those, requests Service::call was called with
     infoShed |-> 0,         \* history: of those, requests the load shedding rejected
     window |-> [start |-> -RatePer, count |-> 0],  \* history: the limiter's period and its requests
     recent |-> [i \in 1..RatePer |-> 0]]           \* history: requests handled per tick, the last second

\* a machine on which starkmint never ran, and the statics of a process just started
EmptyStorage ==
    [hasher |-> Sha256New, poisoned |-> FALSE, TRANSACTIONS |-> 0, TIMER |-> NoInstant,
     tmp_dir |-> FALSE, height_file |-> NoFile]

\* no BeginBlock was handled yet
NoBlock == -1

\* the second instance once its StarknetApp::new() has returned: its process state,
\* the data of its Commits and the number of transactions it applied
ReplicaInit ==
    [st |-> new(EmptyStorage).st, running |-> ~new(EmptyStorage).panic,
     commits |-> <<>>, applied |-> 0]

\* exec: the state once StarknetApp::new() has returned on a fresh machine
Init ==
    /\ hasher = new(EmptyStorage).st.hasher
    /\ poisoned = new(EmptyStorage).st.poisoned
    /\ TRANSACTIONS = new(EmptyStorage).st.TRANSACTIONS
    /\ TIMER = new(EmptyStorage).st.TIMER
    /\ tmp_dir = new(EmptyStorage).st.tmp_dir
    /\ height_file = new(EmptyStorage).st.height_file
    /\ running = ~new(EmptyStorage).panic
    /\ request = Request("none", <<>>)
    /\ response = Resp("none")
    /\ applied = <<>>
    /\ blockStart = NoBlock
    /\ commitLog = <<>>
    /\ restarts = 0
    /\ replica = ReplicaInit
    /\ lanes = LanesInit

\* the instants Instant::now() can return to a handler; the handlers that do not
\* read the clock are given NoInstant
Instants == 0..MaxClock

\* Instant is monotonic: now is not before the instant timer holds
NotBefore(timer, now) == timer = NoInstant \/ now >= timer

\* the part every request kind shares: r is what Service::call returned for req
Handle(req, r) ==
    /\ running
    /\ Install(r.st)
    /\ request' = req
    /\ response' = r.resp
    /\ running' = ~r.panic
    /\ UNCHANGED <<restarts, replica>>

\* a request handed to Service::call directly, the lanes left aside
Serve(req, r) == Handle(req, r) /\ UNCHANGED lanes

Commit ==
    LET r == call(State, Request("Commit", <<>>), NoInstant)
    IN  /\ Len(commitLog) < MaxHeight
        /\ Serve(Request("Commit", <<>>), r)
        /\ commitLog' = (IF r.panic
                         THEN commitLog
                         ELSE Append(commitLog, [data |-> r.resp.data, applied |-> Len(applied)]))
        /\ UNCHANGED <<applied, blockStart>>

Info ==
    /\ Serve(Request("Info", <<>>), call(State, Request("Info", <<>>), NoInstant))
    /\ UNCHANGED <<applied, blockStart, commitLog>>

Query ==
    /\ Serve(Request("Query", <<>>), call(State, Request("Query", <<>>), NoInstant))
    /\ UNCHANGED <<applied, blockStart, commitLog>>

CheckTx ==
    \E bytes \in WireInputs :
        /\ Serve(Request("CheckTx", bytes), call(State, Request("CheckTx", bytes), NoInstant))
        /\ UNCHANGED <<applied, blockStart, commitLog>>

BeginBlock ==
    \E now \in Instants :
        /\ NotBefore(TIMER, now)
        /\ Serve(Request("BeginBlock", <<>>), call(State, Request("BeginBlock", <<>>), now))
        /\ blockStart' = Len(applied)
        /\ UNCHANGED <<applied, commitLog>>

\* a DeliverTx request carrying one of inputs
DeliverTxOf(inputs) ==
    \E bytes \in inputs :
        LET r == call(State, Request("DeliverTx", bytes), NoInstant)
        IN  /\ TRANSACTIONS < MaxBlockTxs
            /\ Len(applied) < MaxApplied
            /\ Serve(Request("DeliverTx", bytes), r)
            /\ applied' = (IF r.panic \/ r.resp.code # 0
                           THEN applied
                           ELSE Append(applied, DeserializeTransaction(bytes).val))
            /\ UNCHANGED <<blockStart, commitLog>>

DeliverTx == DeliverTxOf(WireInputs)

EndBlock ==
    \E now \in Instants :
        /\ NotBefore(TIMER, now)
        /\ Serve(Request("EndBlock", <<>>), call(State, Request("EndBlock", <<>>), now))
        /\ UNCHANGED <<applied, blockStart, commitLog>>

NoOp ==
    \E kind \in Unhandled :
        /\ Serve(Request(kind, <<>>), call(State, Request(kind, <<>>), NoInstant))
        /\ UNCHANGED <<applied, blockStart, commitLog>>

\* the process stops, at any point between two requests, and is started again
\* on the same storage: main runs exec, which runs StarknetApp::new()
Restart ==
    LET r == new([EmptyStorage EXCEPT !.tmp_dir = tmp_dir, !.height_file = height_file])
    IN  /\ restarts < MaxRestarts
        /\ restarts' = restarts + 1
        /\ Install(r.st)
        /\ running' = ~r.panic
        /\ request' = Request("none", <<>>)
        /\ response' = (IF r.panic THEN Panicked ELSE Resp("none"))
        /\ applied' = <<>>
        /\ blockStart' = NoBlock
        /\ UNCHANGED <<commitLog, replica, lanes>>

Next ==
    \/ Commit
    \/ Info
    \/ Query
    \/ CheckTx
    \/ BeginBlock
    \/ DeliverTx
    \/ EndBlock
    \/ NoOp

Spec == Init /\ [][Next]_vars

NextRestart == Next \/ Restart

\* the requests of Spec, and process restarts
SpecRestart == Init /\ [][NextRestart]_vars

(***************************************************************************)
(* A poisoned accumulator.  StarknetApp is Clone and its clones share the  *)
(* Mutex through the Arc: the lock is poisoned once a holder of the guard  *)
(* panics, and every lock() of the instance that serves the requests fails *)
(* from then on.                                                           *)
(***************************************************************************)
PoisonLock ==
    /\ running
    /\ ~poisoned
    /\ poisoned' = TRUE
    /\ UNCHANGED <<hasher, TRANSACTIONS, TIMER, tmp_dir, height_file, running,
                   request, response, applied, blockStart, commitLog, restarts, replica, lanes>>

NextPoison == Commit \/ DeliverTx \/ PoisonLock

\* the block requests that take the lock, and the lock becoming poisoned
SpecPoison == Init /\ [][NextPoison]_vars

(***************************************************************************)
(* A process stopped inside HeightFile::increment.  std::fs::write opens   *)
(* the file truncating it and then writes the bytes: a process stopped     *)
(* before, inside or after it leaves the old record, a prefix of the new   *)
(* one, or the new one.                                                    *)
(***************************************************************************)
Torn(old, bytes) == {old} \cup {SubSeq(bytes, 1, n) : n \in 0..Len(bytes)}

\* what is left of a request whose handler the stop of the process cut short
Crashed == Resp("crash")

CrashInCommit ==
    /\ running
    /\ Len(commitLog) < MaxHeight
    /\ ~increment(State).panic
    /\ height_file' \in Torn(height_file, increment(State).st.height_file)
    /\ running' = FALSE
    /\ request' = Request("Commit", <<>>)
    /\ response' = Crashed
    /\ UNCHANGED <<hasher, poisoned, TRANSACTIONS, TIMER, tmp_dir,
                   applied, blockStart, commitLog, restarts, replica, lanes>>

NextCrash == Commit \/ DeliverTx \/ CrashInCommit \/ Restart

\* the block requests, the process stopping inside a Commit, and restarts
SpecCrash == Init /\ [][NextCrash]_vars

(***************************************************************************)
(* Two instances.  The replica runs the same code on a machine of its own  *)
(* and is sent the consensus requests of the first instance that applied   *)
(* a transaction or committed, in the same order: applied and commitLog    *)
(* are that sequence.  Everything else it handles, and the instants its   *)
(* handlers read from the clock, are its own.                              *)
(***************************************************************************)
\* the next request of the sequence is a Commit
ReplicaNextIsCommit ==
    /\ Len(replica.commits) < Len(commitLog)
    /\ commitLog[Len(replica.commits) + 1].applied = replica.applied

\* the next request of the sequence is a DeliverTx
ReplicaNextIsDeliverTx ==
    /\ ~ReplicaNextIsCommit
    /\ replica.applied < Len(applied)

\* the replica after Service::call returned r
ReplicaServed(r) == [replica EXCEPT !.st = r.st, !.running = ~r.panic]

ReplicaFrame ==
    UNCHANGED <<hasher, poisoned, TRANSACTIONS, TIMER, tmp_dir, height_file, running,
                request, response, applied, blockStart, commitLog, restarts, lanes>>

ReplicaCommit ==
    LET r == call(replica.st, Request("Commit", <<>>), NoInstant)
    IN  /\ replica.running
        /\ ReplicaNextIsCommit
        /\ replica' = (IF r.panic
                       THEN ReplicaServed(r)
                       ELSE [ReplicaServed(r) EXCEPT !.commits = Append(@, r.resp.data)])
        /\ ReplicaFrame

ReplicaDeliverTx ==
    LET r == call(replica.st,
                  Request("DeliverTx", SerializeTransaction(applied[replica.applied + 1])),
                  NoInstant)
    IN  /\ replica.running
        /\ ReplicaNextIsDeliverTx
        /\ replica' = [ReplicaServed(r) EXCEPT !.applied = @ + 1]
        /\ ReplicaFrame

\* the requests the replica handles on its own: the mempool and info lanes, the
\* requests without a handler, block boundaries, and transactions that are rejected
ReplicaOwnRequests ==
    {Request("CheckTx", bytes) : bytes \in WireInputs}
        \cup {Request(kind, <<>>) : kind \in {"Info", "Query", "BeginBlock", "EndBlock"} \cup Unhandled}
        \cup {Request("DeliverTx", SerializeTransaction(tx)) :
                tx \in {t \in Transactions : Validate(t) # Ok(TRUE)}}

ReplicaOther ==
    \E req \in ReplicaOwnRequests, now \in Instants \cup {NoInstant} :
        /\ replica.running
        /\ req.kind = "DeliverTx" => replica.st.TRANSACTIONS < MaxBlockTxs
        /\ IF req.kind \in {"BeginBlock", "EndBlock"}
           THEN now # NoInstant /\ NotBefore(replica.st.TIMER, now)
           ELSE now = NoInstant
        /\ replica' = ReplicaServed(call(replica.st, req, now))
        /\ ReplicaFrame

\* the transactions whose embedded hash is the one the validator computes
ValidInputs == {SerializeTransaction(tx) : tx \in {t \in Transactions : Validate(t) = Ok(TRUE)}}

ValidDeliverTx == DeliverTxOf(ValidInputs)

\* the first instance handles the sequence alone and is the run every replica,
\* whatever else it handles and whenever, is compared with
NextReplay ==
    \/ Commit
    \/ ValidDeliverTx
    \/ ReplicaCommit
    \/ ReplicaDeliverTx
    \/ ReplicaOther

\* the block requests of Spec, and a replica replaying them among its own requests
SpecReplay == Init /\ [][NextReplay]_vars

(***************************************************************************)
(* Lanes.  exec builds one StarknetApp and splits it with                  *)
(* split::service(service, 1) into the consensus, mempool, snapshot and    *)
(* info handles the server routes the requests of a connection to.  The    *)
(* one instance is owned by one worker, and Service::call takes &mut self  *)
(* and runs the handler before it returns: the worker makes one call at a  *)
(* time, whichever lane the request came on.  The consensus and snapshot   *)
(* handles are given to the server as they are; the mempool handle is      *)
(* behind load_shed() and buffer(10), the info handle behind load_shed(),  *)
(* buffer(100) and rate_limit(50, 1 s).                                    *)
(***************************************************************************)
Entry(id, req) == [id |-> id, req |-> req]

\* the histories a request handled through a lane leaves, r being its result
Record(req, r) ==
    /\ applied' = (IF req.kind = "DeliverTx" /\ ~r.panic /\ r.resp.code = 0
                   THEN Append(applied, DeserializeTransaction(req.tx).val)
                   ELSE applied)
    /\ blockStart' = (IF req.kind = "BeginBlock" /\ ~r.panic THEN Len(applied) ELSE blockStart)
    /\ commitLog' = (IF req.kind = "Commit" /\ ~r.panic
                     THEN Append(commitLog, [data |-> r.resp.data, applied |-> Len(applied)])
                     ELSE commitLog)

\* no handler runs in the step
LanesOnly ==
    UNCHANGED <<hasher, poisoned, TRANSACTIONS, TIMER, tmp_dir, height_file, running,
                request, response, applied, blockStart, commitLog, restarts, replica>>

\* load_shed() over buffer(capacity) admitting when the buffer is full, one past
\* its capacity
AdmitsOnePast(queued, capacity) == queued <= capacity

\* load_shed() over buffer(capacity): Buffer::poll_ready is Ready while a slot
\* of the buffer is free, and LoadShed::call rejects the request when it is not
Admits(queued, capacity) == queued < capacity

\* the requests the consensus engine sends on the consensus connection
ConsensusRequests ==
    {Request("BeginBlock", <<>>), Request("Commit", <<>>)}
        \cup {Request("DeliverTx", bytes) : bytes \in ValidInputs}

\* a request is sent on the consensus connection: it waits for the worker, in
\* the order of the connection; with the worker gone it is answered with an error
ConsensusSend ==
    \E req \in ConsensusRequests :
        LET entry == Entry(Len(lanes.arrived) + 1, req)
        IN  /\ Len(lanes.arrived) < MaxSent
            /\ lanes' = (IF running
                         THEN [lanes EXCEPT !.arrived = Append(@, entry),
                                            !.consensus = Append(@, entry)]
                         ELSE [lanes EXCEPT !.arrived = Append(@, entry),
                                            !.failed = @ \cup {entry}])
            /\ LanesOnly

\* a CheckTx carrying one of inputs is sent on the mempool connection
MempoolSendOf(inputs, max) ==
    \E bytes \in inputs :
        LET entry == Entry(Len(lanes.arrived) + 1, Request("CheckTx", bytes))
        IN  /\ Len(lanes.arrived) < max
            /\ lanes' = (IF ~running
                         THEN [lanes EXCEPT !.arrived = Append(@, entry),
                                            !.failed = @ \cup {entry}]
                         ELSE IF Admits(Len(lanes.mempool), MempoolBuffer)
                         THEN [lanes EXCEPT !.arrived = Append(@, entry),
                                            !.mempool = Append(@, entry)]
                         ELSE [lanes EXCEPT !.arrived = Append(@, entry),
                                            !.shed = @ \cup {entry}])
            /\ LanesOnly

\* what a client can have the engine send: a transaction, or bytes that are none
MempoolInputs == ValidInputs \cup Malformed

MempoolSend == MempoolSendOf(MempoolInputs, MaxSent)

\* the set of the entries of a queue
Entries(queue) == {queue[i] : i \in 1..Len(queue)}

\* the worker takes the request at the head of a lane and calls Service::call
\* with it; a handler that panics takes the worker and the application with it,
\* and the requests still waiting are answered with an error
WorkerCall(lane) ==
    \E now \in Instants \cup {NoInstant} :
        /\ lanes[lane] # <<>>
        /\ ~lanes.stuck
        /\ IF Head(lanes[lane]).req.kind \in {"BeginBlock", "EndBlock"}
           THEN now # NoInstant /\ NotBefore(TIMER, now)
           ELSE now = NoInstant
        /\ LET entry == Head(lanes[lane])
               r == call(State, entry.req, now)
           IN  /\ Handle(entry.req, r)
               /\ Record(entry.req, r)
               /\ lanes' = (IF r.panic
                            THEN [lanes EXCEPT
                                     !.handled = Append(@, entry),
                                     !.failed = @ \cup ((Entries(lanes.consensus)
                                                          \cup Entries(lanes.mempool)) \ {entry}),
                                     !.consensus = <<>>,
                                     !.mempool = <<>>]
                            ELSE [lanes EXCEPT !.handled = Append(@, entry),
                                               ![lane] = Tail(@)])

WorkerConsensus == WorkerCall("consensus")

WorkerMempool == WorkerCall("mempool")

\* the worker calls Service::call with the DeliverTx at the head of the consensus
\* lane, and compute_and_hash does not return
ValidatorHangs ==
    /\ running
    /\ ~lanes.stuck
    /\ lanes.consensus # <<>>
    /\ Head(lanes.consensus).req.kind = "DeliverTx"
    /\ DeserializeTransaction(Head(lanes.consensus).req.tx).ok
    /\ lanes' = [lanes EXCEPT !.stuck = TRUE]
    /\ LanesOnly

NextLanes ==
    \/ ConsensusSend
    \/ MempoolSend
    \/ WorkerConsensus
    \/ WorkerMempool
    \/ ValidatorHangs

\* the consensus and mempool connections, and the worker between them
SpecLanes == Init /\ [][NextLanes]_vars

\* the CheckTx requests of a flood: the same transaction over and over
FloodInputs == {SerializeTransaction(Transaction(1, <<0, 1>>))}

MempoolFlood == MempoolSendOf(FloodInputs, MaxMempoolSent)

NextMempool == MempoolFlood \/ WorkerMempool

\* the mempool connection alone, sent more requests than its buffer holds
SpecMempool == Init /\ [][NextMempool]_vars

\* RateLimit keeping the period it is in when a call comes after its end
RateLimitCallKeepsPeriod(limiter, now) ==
    IF limiter.rem > 1
    THEN [until |-> limiter.until, rem |-> limiter.rem - 1, limited |-> FALSE]
    ELSE [until |-> limiter.until, rem |-> 0, limited |-> TRUE]

\* RateLimit::poll_ready and RateLimit::call at the instant now: a limiter found
\* past the end of its period starts one at now, with all its requests; the call
\* takes one, and the last one leaves the limiter asleep until the period ends
RateLimitCall(limiter, now) ==
    LET until == IF now >= limiter.until THEN now + RatePer ELSE limiter.until
        rem == IF now >= limiter.until THEN InfoRate ELSE limiter.rem
    IN  IF rem > 1
        THEN [until |-> until, rem |-> rem - 1, limited |-> FALSE]
        ELSE [until |-> until, rem |-> 0, limited |-> TRUE]

\* RateLimit::poll_ready: Pending while the limiter sleeps
RateLimitReady(limiter, now) == ~limiter.limited \/ now >= limiter.until

RECURSIVE RateLimitCalls(_, _, _)
\* the limiter after n calls at now, or as far as it was ready
RateLimitCalls(limiter, now, n) ==
    IF n = 0 \/ ~RateLimitReady(limiter, now)
    THEN limiter
    ELSE RateLimitCalls(RateLimitCall(limiter, now), now, n - 1)

RECURSIVE Permitted(_, _, _)
\* how many of n requests the limiter lets through at now
Permitted(limiter, now, n) ==
    IF n = 0 \/ ~RateLimitReady(limiter, now)
    THEN 0
    ELSE 1 + Permitted(RateLimitCall(limiter, now), now, n - 1)

\* the sizes of the bursts sent on the info connection: one request, or as many
\* as the buffer holds
Bursts == {1, InfoBuffer}

RECURSIVE Admitted(_, _)
\* how many of n requests sent one after another the buffer of the info lane,
\* holding queued requests, admits
Admitted(queued, n) ==
    IF n = 0 \/ ~Admits(queued, InfoBuffer)
    THEN 0
    ELSE 1 + Admitted(queued + 1, n - 1)

\* a burst of Info and Query requests is sent on the info connection: each is
\* admitted to the buffer or rejected, one after another
InfoSend ==
    \E n \in Bursts :
        LET admitted == Admitted(lanes.infoQueue, n)
        IN  /\ running
            /\ lanes.infoSends < MaxInfoSends
            /\ lanes' = [lanes EXCEPT !.infoSends = @ + 1,
                                      !.infoArrived = @ + n,
                                      !.infoQueue = @ + admitted,
                                      !.infoShed = @ + (n - admitted)]
            /\ LanesOnly

RECURSIVE CallTimes(_, _, _)
\* the result of the last of n calls of Service::call with req, starting in st
CallTimes(st, req, n) ==
    IF n = 1 \/ call(st, req, NoInstant).panic
    THEN call(st, req, NoInstant)
    ELSE CallTimes(call(st, req, NoInstant).st, req, n - 1)

\* the period of the limiter a request forwarded at now falls in, and the number
\* of requests forwarded in it so far
WindowAfter(window, now, n) ==
    IF now >= window.start + RatePer
    THEN [start |-> now, count |-> n]
    ELSE [window EXCEPT !.count = @ + n]

\* the buffer of the info lane forwards queued requests through the limiter to
\* the worker, one after another: a single one, or all the limiter lets through
InfoForward ==
    \E kind \in {"Info", "Query"}, all \in BOOLEAN :
        LET n == IF all THEN Permitted(lanes.limiter, lanes.now, lanes.infoQueue) ELSE 1
            r == CallTimes(State, Request(kind, <<>>), n)
        IN  /\ lanes.infoQueue > 0
            /\ ~lanes.stuck
            /\ RateLimitReady(lanes.limiter, lanes.now)
            /\ lanes.infoForwards < MaxInfoForwards
            /\ Handle(Request(kind, <<>>), r)
            /\ UNCHANGED <<applied, blockStart, commitLog>>
            /\ lanes' = [lanes EXCEPT
                            !.infoForwards = @ + 1,
                            !.infoQueue = @ - n,
                            !.infoHandled = @ + n,
                            !.limiter = RateLimitCalls(@, lanes.now, n),
                            !.window = WindowAfter(@, lanes.now, n),
                            !.recent[RatePer] = @ + n]

\* half a second passes
InfoTick ==
    /\ lanes.now < MaxTicks
    /\ lanes' = [lanes EXCEPT !.now = @ + 1,
                              !.recent = [i \in 1..RatePer |->
                                              IF i < RatePer THEN lanes.recent[i + 1] ELSE 0]]
    /\ LanesOnly

NextInfo == InfoSend \/ InfoForward \/ InfoTick

\* the info connection alone, and the clock of its limiter
SpecInfo == Init /\ [][NextInfo]_vars

(***************************************************************************)
(* Properties.                                                             *)
(***************************************************************************)
\* the height HEIGHT_PATH holds
StoredHeight == DeserializeHeight(height_file)

\* the commitment a Commit handled now would return
CommitData == app_hash(State)

HashesOf(txs) == [i \in 1..Len(txs) |-> txs[i].transaction_hash]

RECURSIVE FoldInOrder(_, _)
\* the accumulator acc after the hashes hs were folded into it one after another
FoldInOrder(acc, hs) ==
    IF Len(hs) = 0 THEN acc ELSE FoldInOrder(Sha256Update(acc, Head(hs)), Tail(hs))

\* Len(applied) when the current block began (0 for requests before any BeginBlock)
BlockBase == IF blockStart = NoBlock THEN 0 ELSE blockStart

\* the transaction a DeliverTx or CheckTx request carries is one DeliverTx must reject
Rejectable(req) ==
    /\ DeserializeTransaction(req.tx).ok
    /\ compute_and_hash(DeserializeTransaction(req.tx).val.transaction_type)
           # Ok(DeserializeTransaction(req.tx).val.transaction_hash)

\* C1: from a freshly constructed application the stored height is 0 before the
\* first Commit and the number of Commits handled ever after; a step changes it
\* only by adding exactly one, and only when the step is a Commit.
C1_HeightAdvancesByOne ==
    /\ [](StoredHeight = Ok(Len(commitLog)))
    /\ [][\/ StoredHeight' = StoredHeight
          \/ /\ request'.kind = "Commit"
             /\ StoredHeight'.val = StoredHeight.val + 1]_vars

\* C1 witness: two Commits were handled and the stored height is 2
C1_Witness == Len(commitLog) = 2 /\ StoredHeight = Ok(2) /\ request.kind = "Commit"

\* C2: a request of any kind but Commit (BeginBlock, DeliverTx accepted or
\* rejected, EndBlock, CheckTx, Info, Query, the kinds without a handler) leaves
\* the bytes of the height record as they were.
C2_OnlyCommitWritesHeight ==
    [][request'.kind \in ({"BeginBlock", "DeliverTx", "EndBlock", "CheckTx", "Info", "Query"} \cup Unhandled)
           => height_file' = height_file]_vars

\* C2 witness: an Info request was answered after a Commit and the record holds 1
C2_Witness ==
    /\ request.kind = "Info"
    /\ response.last_block_height = 1
    /\ height_file = SerializeHeight(1)

\* C3: after a restart on the same storage the application is constructed and
\* serving, and the height it reads is the number of Commits persisted so far.
C3_RestartKeepsHeight ==
    restarts > 0 => (running /\ read_or_create(State).height = Len(commitLog))

\* C4: the data a Commit returns is the digest of the accumulator obtained by
\* folding, in delivery order, the hashes of the transactions DeliverTx accepted
\* in the block into the accumulator the block started with.
C4_CommitIsFoldInDeliveryOrder ==
    (request.kind = "Commit" /\ response.kind = "Commit")
        => response.data =
               Sha256Finalize(
                   FoldInOrder(FoldInOrder(Sha256New, HashesOf(SubSeq(applied, 1, BlockBase))),
                               HashesOf(SubSeq(applied, BlockBase + 1, Len(applied)))))

\* C4 witness: the first block of an instance delivered two different valid
\* transactions and its Commit returned the digest of their hashes in that order,
\* which is not the digest of the other order
C4_Witness ==
    /\ request.kind = "Commit"
    /\ blockStart = 0
    /\ Len(applied) = 2
    /\ applied[1] # applied[2]
    /\ response.data = Sha256Finalize(applied[1].transaction_hash \o applied[2].transaction_hash)
    /\ response.data # Sha256Finalize(applied[2].transaction_hash \o applied[1].transaction_hash)

\* C5: a DeliverTx whose embedded hash is not the recomputed one, or whose
\* validator call fails, is answered with code 1 and no events, and leaves the
\* accumulator, hence the data of the next Commit, unchanged.
C5_RejectedDeliverTxLeavesAccumulator ==
    [][(request'.kind = "DeliverTx" /\ Rejectable(request'))
           => /\ response'.code = 1
              /\ response'.events = <<>>
              /\ hasher' = hasher
              /\ CommitData' = CommitData]_vars

\* C5 witness: a transaction with a wrong embedded hash was rejected after
\* another one had been applied
C5_Witness ==
    /\ request.kind = "DeliverTx"
    /\ Rejectable(request)
    /\ compute_and_hash(DeserializeTransaction(request.tx).val.transaction_type).ok
    /\ response.code = 1
    /\ Len(applied) = 1

\* C6: CheckTx (whatever its bytes), Info and Query leave the accumulator, the
\* per-block counters and the height record unchanged, and with them the data
\* the next Commit returns.
C6_MempoolAndInfoLanesMutateNothing ==
    [][request'.kind \in {"CheckTx", "Info", "Query"}
           => /\ hasher' = hasher
              /\ TRANSACTIONS' = TRANSACTIONS
              /\ TIMER' = TIMER
              /\ height_file' = height_file
              /\ CommitData' = CommitData]_vars

\* C6 witness: a CheckTx of a valid transaction was answered in the middle of a
\* block that has applied a transaction, after a Commit
C6_Witness ==
    /\ request.kind = "CheckTx"
    /\ response.kind = "CheckTx"
    /\ ~Rejectable(request)
    /\ TRANSACTIONS = 1
    /\ Len(applied) = 1
    /\ Len(commitLog) = 1

\* C7: every Commit of the replica returns the data the same Commit of the first
\* instance returned, whatever requests of its own the replica handled in between
\* and whenever its blocks began.
C7_ReplicasAgree ==
    \A k \in 1..Len(replica.commits) :
        k <= Len(commitLog) /\ replica.commits[k] = commitLog[k].data

\* C7 witness: the replica has handled CheckTx requests and block boundaries of
\* its own at another time, and has committed twice with a transaction in between
C7_Witness ==
    /\ Len(replica.commits) = 2
    /\ replica.applied = 2
    /\ commitLog[1].applied = 1
    /\ replica.st.TIMER # TIMER
    /\ replica.st.TRANSACTIONS # TRANSACTIONS

\* C8: the data of the k-th Commit is the digest of the hashes of all the
\* transactions applied before it, in order, over all blocks; a Commit with no
\* transaction applied since the previous Commit returns the same data as it.
C8_AccumulatorIsCumulative ==
    \A k \in 1..Len(commitLog) :
        /\ commitLog[k].data =
               Sha256Finalize(FoldInOrder(Sha256New, HashesOf(SubSeq(applied, 1, commitLog[k].applied))))
        /\ (k > 1 /\ commitLog[k].applied = commitLog[k - 1].applied)
               => commitLog[k].data = commitLog[k - 1].data

\* C8 witness: two Commits, a transaction applied before the first and another
\* between the two
C8_Witness ==
    /\ Len(commitLog) = 2
    /\ commitLog[1].applied = 1
    /\ commitLog[2].applied = 2
    /\ commitLog[2].data # commitLog[1].data

\* C9: the transaction count EndBlock reports is the number of DeliverTx
\* requests answered with code 0 since the last BeginBlock.
C9_CountIsAcceptedTransactions ==
    (request.kind = "EndBlock" /\ blockStart # NoBlock)
        => response.traced.count = Len(applied) - blockStart

\* C10: Info reports the stored height and, as last commitment, the data of the
\* most recent Commit.
C10_InfoReportsLastCommit ==
    (request.kind = "Info" /\ response.kind = "Info" /\ Len(commitLog) > 0)
        => /\ response.last_block_height = Len(commitLog)
           /\ response.last_block_app_hash = commitLog[Len(commitLog)].data

\* C11 as stated: every request handled is answered with a response of its own
\* kind.
C11_EveryRequestAnswered ==
    request.kind # "none" => response.kind = request.kind

\* C11, amended: every request whose handler returns is answered with a response
\* of its own kind, and the only requests without a response are the CheckTx and
\* DeliverTx whose bytes do not deserialize; the kinds without a handler are
\* always answered, with code 0 and neither data nor events, and leave the
\* accumulator, the per-block counters and the height record unchanged.
C11_DispatchIsTotalOnWellFormed ==
    /\ [](request.kind # "none"
            => \/ response.kind = request.kind
               \/ /\ response = Panicked
                  /\ request.kind \in {"CheckTx", "DeliverTx"}
                  /\ ~DeserializeTransaction(request.tx).ok)
    /\ [][request'.kind \in Unhandled
            => /\ response'.kind = request'.kind
               /\ response'.code = 0
               /\ response'.data = <<>>
               /\ response'.events = <<>>
               /\ hasher' = hasher
               /\ TRANSACTIONS' = TRANSACTIONS
               /\ TIMER' = TIMER
               /\ height_file' = height_file]_vars

\* C11 witness: a Flush was answered in the middle of a block, after a Commit
C11_Witness ==
    /\ request.kind = "Flush"
    /\ response.kind = "Flush"
    /\ TRANSACTIONS = 1
    /\ Len(applied) = 1
    /\ StoredHeight = Ok(1)

\* C18: a BeginBlock leaves the per-block count at 0 and the timer at the instant
\* it read from the clock (the elapsed time it logs is measured from the timer it
\* found), whatever the count and the timer were before.
C18_BeginBlockResetsCounters ==
    [][request'.kind = "BeginBlock"
           => /\ TRANSACTIONS' = 0
              /\ TIMER' \in Instants
              /\ NotBefore(TIMER, TIMER')
              /\ response'.traced.ms = TIMER' - Force(TIMER, TIMER')]_vars

\* C18 witness: a BeginBlock was handled after two transactions had been applied
\* in a block that was neither ended nor committed, and the count is 0
C18_Witness ==
    /\ request.kind = "BeginBlock"
    /\ blockStart = 2
    /\ Len(commitLog) = 0
    /\ TRANSACTIONS = 0
    /\ TIMER = 1
    /\ response.traced.ms = 1

\* C19: a CheckTx whose bytes deserialize is answered with code 0, whether or not
\* DeliverTx would reject the transaction; one whose bytes do not deserialize is
\* not answered at all, its handler panics; either way the accumulator and the
\* height record are unchanged.
C19_CheckTxIsAdvisory ==
    /\ [](request.kind = "CheckTx"
            => IF DeserializeTransaction(request.tx).ok
               THEN response.kind = "CheckTx" /\ response.code = 0
               ELSE response = Panicked /\ ~running)
    /\ [][request'.kind = "CheckTx" => hasher' = hasher /\ height_file' = height_file]_vars

\* C19 witness: a CheckTx of a transaction whose embedded hash is not the
\* recomputed one was answered with code 0
C19_Witness ==
    /\ request.kind = "CheckTx"
    /\ Rejectable(request)
    /\ response.kind = "CheckTx"
    /\ response.code = 0
    /\ running

\* no block is open: no BeginBlock was handled yet, or the last request handled
\* was the Commit that closed the block
Idle == blockStart = NoBlock \/ request.kind = "Commit"

\* C20: a DeliverTx, EndBlock or Commit handled while no block is open folds no
\* hash and does not advance the height.
C20_IdleRequestsAreIgnored ==
    [][(Idle /\ request'.kind \in {"DeliverTx", "EndBlock", "Commit"})
           => hasher' = hasher /\ height_file' = height_file]_vars

\* C16: after the process stopped inside HeightFile::increment, read_or_create
\* on the storage it left returns the height before that Commit or the height
\* after it: it does not panic on a truncated or partial record, and returns no
\* other value.
C16_HeightStoreIsCrashConsistent ==
    response = Crashed
        => /\ ~read_or_create(State).panic
           /\ read_or_create(State).height \in {Len(commitLog), Len(commitLog) + 1}

\* C17: a Commit handled while the accumulator's lock is poisoned does not panic:
\* it is answered with a Commit response with empty data and retain_height 0, and
\* the stored height is one more than before.
C17_PoisonedCommitStillAdvances ==
    [][(poisoned /\ request'.kind = "Commit")
           => /\ running'
              /\ response'.kind = "Commit"
              /\ response'.data = <<>>
              /\ response'.retain_height = 0
              /\ StoredHeight.ok
              /\ StoredHeight' = Ok(StoredHeight.val + 1)]_vars

\* C17 witness: the lock was poisoned after a first Commit that returned a
\* digest and a transaction applied since, and the second Commit returned an
\* empty commitment and stored height 2
C17_Witness ==
    /\ poisoned
    /\ request.kind = "Commit"
    /\ Len(commitLog) = 2
    /\ commitLog[1].data # <<>>
    /\ commitLog[2].data = <<>>
    /\ response.data = <<>>
    /\ StoredHeight = Ok(2)
    /\ running

\* the request of a queue entry is one of the consensus lane
IsConsensus(entry) == entry.req.kind # "CheckTx"

\* C12: the requests sent on the consensus lane are, in the order sent and each
\* once, those Service::call was called with followed by those still waiting:
\* none is rejected or answered with an error, whatever is sent on the mempool lane.
C12_BlockLaneHandlesEachOnceInOrder ==
    SelectSeq(lanes.arrived, IsConsensus)
        = SelectSeq(lanes.handled, IsConsensus) \o lanes.consensus

\* C13: the buffer of the mempool lane never holds more than 10 requests; a
\* CheckTx sent while it holds 10 is rejected at once and the queue left as it
\* is, one sent while it holds fewer is queued; a rejected request is never
\* queued or handed to the handler, and every other one is waiting or handled.
C13_MempoolLaneShedsWhenFull ==
    /\ [](/\ Len(lanes.mempool) <= MempoolBuffer
          /\ lanes.shed \cap (Entries(lanes.handled) \cup Entries(lanes.mempool)) = {}
          /\ Entries(lanes.arrived)
                 = Entries(lanes.handled) \cup Entries(lanes.mempool) \cup lanes.shed)
    /\ [][Len(lanes'.arrived) > Len(lanes.arrived)
             => IF Len(lanes.mempool) = MempoolBuffer
                THEN /\ lanes'.mempool = lanes.mempool
                     /\ lanes'.shed = lanes.shed \cup {lanes'.arrived[Len(lanes'.arrived)]}
                ELSE /\ lanes'.mempool
                            = Append(lanes.mempool, lanes'.arrived[Len(lanes'.arrived)])
                     /\ lanes'.shed = lanes.shed]_vars

\* C13 witness: a CheckTx was rejected with the buffer full, and one sent after
\* it was handled by check_tx
C13_Witness ==
    /\ request.kind = "CheckTx"
    /\ response.kind = "CheckTx"
    /\ \E s \in lanes.shed : \E h \in Entries(lanes.handled) : h.id > s.id
    /\ Len(lanes.mempool) < MempoolBuffer

\* the buffer of the info lane holds at most 100 requests, and every request
\* sent is waiting in it, was handed to the handler, or was rejected
InfoQueueHolds ==
    /\ lanes.infoQueue <= InfoBuffer
    /\ lanes.infoArrived = lanes.infoQueue + lanes.infoHandled + lanes.infoShed

\* C14 as stated: at most 50 Info/Query requests reach the handler in any one
\* second, the others waiting in the buffer.
C14_AtMostFiftyInAnySecond ==
    /\ lanes.recent[1] + lanes.recent[RatePer] <= InfoRate
    /\ InfoQueueHolds

\* C14, amended: at most 50 Info/Query requests reach the handler in any one
\* period of the limiter, a second that starts with the first request forwarded
\* after the period before it ended; while the limiter sleeps the requests wait
\* in the buffer, which holds at most 100, and requests are rejected only when
\* sent with the buffer full, all of them at once.
C14_AtMostFiftyPerLimiterPeriod ==
    /\ [](lanes.window.count <= InfoRate /\ InfoQueueHolds)
    /\ [][/\ lanes'.infoHandled > lanes.infoHandled
               => RateLimitReady(lanes.limiter, lanes.now)
          /\ lanes'.infoShed > lanes.infoShed
               => lanes'.infoArrived > lanes.infoArrived /\ lanes'.infoQueue = InfoBuffer
          /\ (lanes'.infoArrived > lanes.infoArrived /\ lanes.infoQueue = InfoBuffer)
               => /\ lanes'.infoQueue = lanes.infoQueue
                  /\ lanes'.infoShed - lanes.infoShed
                         = lanes'.infoArrived - lanes.infoArrived]_vars

\* C14 witness: 50 requests were handled in the current period, the limiter
\* sleeps, the buffer is full of waiting requests and requests were rejected
C14_Witness ==
    /\ lanes.limiter.limited
    /\ lanes.now < lanes.limiter.until
    /\ lanes.window.count = InfoRate
    /\ lanes.infoQueue = InfoBuffer
    /\ lanes.infoShed > 0
    /\ request.kind \in {"Info", "Query"}

\* C15: while a DeliverTx is blocked in compute_and_hash, a CheckTx waiting on
\* the mempool lane can be handled.
C15_OtherLanesServedWhileStuck ==
    (lanes.stuck /\ lanes.mempool # <<>>) => ENABLED WorkerMempool

====
